---- MODULE Spec2Model ----
(***************************************************************************)
(* Model of src/src/metrics.py: parse_result_line, summarize, percentile.  *)
(*                                                                         *)
(* Python floats are IEEE-754 binary64 values.  The arithmetic of the      *)
(* source ( / , * , - , + , float(), math.fsum) is modelled bit-exactly    *)
(* for non-negative finite values: a float is m * 2^e with m an arbitrary  *)
(* precision natural (a little-endian sequence of limbs), every operation  *)
(* is computed exactly and then rounded to 53 significant bits, ties to    *)
(* even.  Overflow, subnormals, infinities and NaN are outside the inputs  *)
(* the model draws.                                                        *)
(***************************************************************************)
EXTENDS Integers, Sequences, FiniteSets, TLC

(***************************************************************************)
(* Arbitrary precision naturals: <<l1, l2, ...>> is l1 + l2*B + ...; no    *)
(* high zero limb; zero is <<>>.                                           *)
(***************************************************************************)
\* limb products and carries stay below 2^31, the width of TLC's integers
LimbBits == 16 - 1

B == 2^LimbBits

Mant == 53

Min(a, b) == IF a <= b THEN a ELSE b

RECURSIVE BFromInt(_)
BFromInt(n) == IF n = 0 THEN <<>> ELSE <<n % B>> \o BFromInt(n \div B)

RECURSIVE BToInt(_)
BToInt(a) == IF a = <<>> THEN 0 ELSE Head(a) + B * BToInt(Tail(a))

RECURSIVE BStrip(_)
BStrip(a) ==
  IF a = <<>> THEN <<>>
  ELSE IF a[Len(a)] = 0 THEN BStrip(SubSeq(a, 1, Len(a) - 1))
  ELSE a

Limb(a, i) == IF i <= Len(a) THEN a[i] ELSE 0

RECURSIVE BAddRec(_, _, _, _)
BAddRec(a, b, i, c) ==
  IF i > Len(a) /\ i > Len(b)
  THEN (IF c = 0 THEN <<>> ELSE <<c>>)
  ELSE LET s == Limb(a, i) + Limb(b, i) + c
       IN  <<s % B>> \o BAddRec(a, b, i + 1, s \div B)

BAdd(a, b) == BAddRec(a, b, 1, 0)

\* a - b for a >= b
RECURSIVE BSubRec(_, _, _, _)
BSubRec(a, b, i, c) ==
  IF i > Len(a) THEN <<>>
  ELSE LET s == Limb(a, i) - Limb(b, i) - c
       IN  IF s < 0 THEN <<s + B>> \o BSubRec(a, b, i + 1, 1)
           ELSE <<s>> \o BSubRec(a, b, i + 1, 0)

BSub(a, b) == BStrip(BSubRec(a, b, 1, 0))

\* -1, 0, 1 as a < b, a = b, a > b
RECURSIVE BCmpRec(_, _, _)
BCmpRec(a, b, i) ==
  IF i = 0 THEN 0
  ELSE IF a[i] < b[i] THEN -1
  ELSE IF a[i] > b[i] THEN 1
  ELSE BCmpRec(a, b, i - 1)

BCmp(a, b) ==
  IF Len(a) < Len(b) THEN -1
  ELSE IF Len(a) > Len(b) THEN 1
  ELSE BCmpRec(a, b, Len(a))

\* a * s for 0 <= s <= B
RECURSIVE BMulSmallRec(_, _, _, _)
BMulSmallRec(a, s, i, c) ==
  IF i > Len(a) THEN BFromInt(c)
  ELSE LET t == a[i] * s + c
       IN  <<t % B>> \o BMulSmallRec(a, s, i + 1, t \div B)

BMulSmall(a, s) == IF s = 0 THEN <<>> ELSE BMulSmallRec(a, s, 1, 0)

BShiftLimb(a) == IF a = <<>> THEN <<>> ELSE <<0>> \o a

RECURSIVE BMul(_, _)
BMul(a, b) ==
  IF b = <<>> \/ a = <<>> THEN <<>>
  ELSE BAdd(BMulSmall(a, Head(b)), BShiftLimb(BMul(a, Tail(b))))

\* quotient and remainder of a by d, 0 < d <= B: long division from the high
\* limb i down, r the remainder so far and q the quotient limbs so far
RECURSIVE BDivRec(_, _, _, _, _)
BDivRec(a, d, i, r, q) ==
  IF i = 0 THEN [q |-> BStrip(q), r |-> r]
  ELSE BDivRec(a, d, i - 1, (r * B + a[i]) % d, <<(r * B + a[i]) \div d>> \o q)

BDivSmall(a, d) == BDivRec(a, d, Len(a), 0, <<>>)

RECURSIVE BZeros(_)
BZeros(n) == IF n = 0 THEN <<>> ELSE <<0>> \o BZeros(n - 1)

\* a * 2^s
BShl(a, s) ==
  IF a = <<>> THEN <<>>
  ELSE BZeros(s \div LimbBits) \o BMulSmall(a, 2^(s % LimbBits))

\* floor(a / 2^s)
BShr(a, s) ==
  LET k == s \div LimbBits
  IN  IF k >= Len(a) THEN <<>>
      ELSE BDivSmall(SubSeq(a, k + 1, Len(a)), 2^(s % LimbBits)).q

BitLenSmall(x) == CHOOSE k \in 0..LimbBits : x < 2^k /\ (k = 0 \/ x >= 2^(k - 1))

BitLen(a) ==
  IF a = <<>> THEN 0 ELSE LimbBits * (Len(a) - 1) + BitLenSmall(a[Len(a)])

\* number of trailing zero bits of a # 0
RECURSIVE BTrailing(_)
BTrailing(a) ==
  IF Head(a) = 0 THEN LimbBits + BTrailing(Tail(a))
  ELSE CHOOSE k \in 0..LimbBits : Head(a) % 2^k = 0 /\ Head(a) % 2^(k + 1) # 0

BOdd(a) == a # <<>> /\ Head(a) % 2 = 1

(***************************************************************************)
(* binary64 values >= 0: [m, e] is m * 2^e, with m odd (or m = 0, e = 0),  *)
(* so equal values are equal records.                                      *)
(***************************************************************************)
FZero == [m |-> <<>>, e |-> 0]

FNorm(m, e) ==
  IF m = <<>> THEN FZero
  ELSE LET t == BTrailing(m) IN [m |-> BShr(m, t), e |-> e + t]

\* q = floor(m / 2^sh) rounded up when the bits cut off, whose first is the low
\* bit of r1 = floor(m / 2^(sh-1)), are more than half, or half with q odd
RoundCut(m, e, sh, r1, q) ==
  IF BOdd(r1) /\ (BShl(r1, sh - 1) # m \/ BOdd(q))
  THEN FNorm(BAdd(q, <<1>>), e + sh)
  ELSE FNorm(q, e + sh)

RoundHalf(m, e, sh, r1) == RoundCut(m, e, sh, r1, BShr(r1, 1))

RoundBits(m, e, sh) == RoundHalf(m, e, sh, BShr(m, sh - 1))

RoundLen(m, e, bl) == IF bl <= Mant THEN FNorm(m, e) ELSE RoundBits(m, e, bl - Mant)

\* m * 2^e rounded to Mant significant bits, ties to even
FRound(m, e) == RoundLen(m, e, BitLen(m))

FFromInt(n) == FNorm(BFromInt(n), 0)

FCmpAt(x, y, mn) == BCmp(BShl(x.m, x.e - mn), BShl(y.m, y.e - mn))

FCmp(x, y) == IF x = y THEN 0 ELSE FCmpAt(x, y, Min(x.e, y.e))

FLe(x, y) == FCmp(x, y) <= 0

FLt(x, y) == FCmp(x, y) < 0

FAddAt(x, y, mn) == FRound(BAdd(BShl(x.m, x.e - mn), BShl(y.m, y.e - mn)), mn)

FAdd(x, y) == FAddAt(x, y, Min(x.e, y.e))

FSubAt(x, y, mn) == FRound(BSub(BShl(x.m, x.e - mn), BShl(y.m, y.e - mn)), mn)

\* x - y for x >= y
FSub(x, y) == FSubAt(x, y, Min(x.e, y.e))

FMul(x, y) == FRound(BMul(x.m, y.m), x.e + y.e)

FDivSticky(h, e) ==
  FRound(BAdd(BMulSmall(h.q, 2), BFromInt(IF h.r = 0 THEN 0 ELSE 1)), e)

\* x / d for an integer 0 < d < B, correctly rounded: the quotient is taken
\* with Mant + LimbBits + 2 extra bits and a sticky bit for the remainder
FDivInt(x, d) ==
  FDivSticky(BDivSmall(BShl(x.m, Mant + LimbBits + 2), d),
             x.e - (Mant + LimbBits + 2) - 1)

\* int(x): truncation toward zero
FTrunc(x) ==
  IF x.e >= 0 THEN BToInt(BShl(x.m, x.e)) ELSE BToInt(BShr(x.m, 0 - x.e))

\* math.fsum: the exact sum, rounded once
RECURSIVE FSumExact(_, _, _)
FSumExact(xs, i, emin) ==
  IF i > Len(xs) THEN <<>>
  ELSE BAdd(BShl(xs[i].m, xs[i].e - emin), FSumExact(xs, i + 1, emin))

RECURSIVE MinExp(_, _, _)
MinExp(xs, i, mn) ==
  IF i > Len(xs) THEN mn ELSE MinExp(xs, i + 1, Min(xs[i].e, mn))

FSumAt(xs, emin) == FRound(FSumExact(xs, 1, emin), emin)

fsum(xs) == FSumAt(xs, MinExp(xs, 1, 0))

\* statistics.fmean(data) is fsum(data) / len(data)
fmean(xs) == FDivInt(fsum(xs), Len(xs))

(***************************************************************************)
(* Text: a str is a sequence of one-character strings.                     *)
(***************************************************************************)
Lower == {"a","b","c","d","e","f","g","h","i","j","k","l","m",
          "n","o","p","q","r","s","t","u","v","w","x","y","z"}

Upper == {"A","B","C","D","E","F","G","H","I","J","K","L","M",
          "N","O","P","Q","R","S","T","U","V","W","X","Y","Z"}

DigitSeq == <<"0","1","2","3","4","5","6","7","8","9">>

Digits == {DigitSeq[i] : i \in 1..10}

DigitVal(ch) == (CHOOSE i \in 1..10 : DigitSeq[i] = ch) - 1

\* [a-zA-Z0-9\.\-]
HostChars == Lower \cup Upper \cup Digits \cup {".", "-"}

\* \s of the pattern and the characters str.strip() removes (the ASCII ones)
Space == {" ", "\t", "\n", "\r", "\f"}

None == <<>>

Some(x) == <<x>>

RECURSIVE lstrip(_)
lstrip(s) == IF s # <<>> /\ Head(s) \in Space THEN lstrip(Tail(s)) ELSE s

RECURSIVE rstrip(_)
rstrip(s) ==
  IF s # <<>> /\ s[Len(s)] \in Space THEN rstrip(SubSeq(s, 1, Len(s) - 1)) ELSE s

strip(s) == rstrip(lstrip(s))

\* position after the literal lit at position i of s, 0 when s does not continue with lit
Lit(s, i, lit) ==
  IF i >= 1 /\ i + Len(lit) - 1 <= Len(s) /\ SubSeq(s, i, i + Len(lit) - 1) = lit
  THEN i + Len(lit) ELSE 0

\* position after the longest run of characters of cls at position i of s
RECURSIVE Run(_, _, _)
Run(s, i, cls) == IF i <= Len(s) /\ s[i] \in cls THEN Run(s, i + 1, cls) ELSE i

\* cls+ at position i: position after it, 0 when there is none
Run1(s, i, cls) == IF i = 0 \/ Run(s, i, cls) = i THEN 0 ELSE Run(s, i, cls)

\* mutant: the pattern without its $
AtEnd_unanchored(s, i) == TRUE

\* $ without re.MULTILINE: at the end, or before a newline that ends the string
AtEnd(s, i) == i = Len(s) + 1 \/ (i = Len(s) /\ s[i] = "\n")

kwHost == <<"h","o","s","t","=">>

kwStatus == <<"s","t","a","t","u","s","=">>

kwLat == <<"l","a","t","e","n","c","y","_","m","s","=">>

sOK == <<"O","K">>

sFAIL == <<"F","A","I","L">>

NoMatch == [matched |-> FALSE, host |-> <<>>, status |-> <<>>, lat |-> None]

Match(host, status, lat) ==
  [matched |-> TRUE, host |-> host, status |-> status, lat |-> lat]

(***************************************************************************)
(* _PING_RE.match(s), one operator per item of the pattern, each given the *)
(* positions the items before it matched up to (0: no match).  The classes *)
(* of adjacent items are disjoint, so the only backtracking that can       *)
(* succeed is giving up the fraction of the number or the whole optional   *)
(* latency group.                                                          *)
(***************************************************************************)
\* $ after the number ending at d2 (with its fraction) or d1 (without), or
\* after the status when the latency group is given up
MatchTail(s, h0, h1, t0, t1, l0, d1, d2) ==
  IF d2 # 0 /\ AtEnd(s, d2)
  THEN Match(SubSeq(s, h0, h1 - 1), SubSeq(s, t0, t1 - 1), Some(SubSeq(s, l0, d2 - 1)))
  ELSE IF d1 # 0 /\ AtEnd(s, d1)
  THEN Match(SubSeq(s, h0, h1 - 1), SubSeq(s, t0, t1 - 1), Some(SubSeq(s, l0, d1 - 1)))
  ELSE IF AtEnd(s, t1)
  THEN Match(SubSeq(s, h0, h1 - 1), SubSeq(s, t0, t1 - 1), None)
  ELSE NoMatch

\* (\.\d+)?
MatchFraction(s, h0, h1, t0, t1, l0, d1) ==
  MatchTail(s, h0, h1, t0, t1, l0, d1,
            IF d1 # 0 /\ d1 <= Len(s) /\ s[d1] = "." THEN Run1(s, d1 + 1, Digits) ELSE 0)

\* \d+
MatchNumber(s, h0, h1, t0, t1, l0) ==
  MatchFraction(s, h0, h1, t0, t1, l0, Run1(s, l0, Digits))

\* latency_ms=
MatchLatKey(s, h0, h1, t0, t1, w2) ==
  MatchNumber(s, h0, h1, t0, t1, IF w2 = 0 THEN 0 ELSE Lit(s, w2, kwLat))

\* (?: \s+ ...
MatchGroup(s, h0, h1, t0, t1) ==
  IF t1 = 0 THEN NoMatch ELSE MatchLatKey(s, h0, h1, t0, t1, Run1(s, t1, Space))

\* (OK|FAIL)
MatchStatus(s, h0, h1, t0) ==
  MatchGroup(s, h0, h1, t0,
             IF t0 = 0 THEN 0
             ELSE IF Lit(s, t0, sOK) # 0 THEN Lit(s, t0, sOK)
             ELSE Lit(s, t0, sFAIL))

\* status=
MatchStatusKey(s, h0, h1, w1) ==
  MatchStatus(s, h0, h1, IF w1 = 0 THEN 0 ELSE Lit(s, w1, kwStatus))

\* \s+
MatchSpace(s, h0, h1) == MatchStatusKey(s, h0, h1, Run1(s, h1, Space))

\* [a-zA-Z0-9\.\-]+
MatchHost(s, h0) == MatchSpace(s, h0, Run1(s, h0, HostChars))

\* host= at the start of the string
PING_RE_match(s) == MatchHost(s, Lit(s, 1, kwHost))

\* the digits of a numeral as a natural, the point skipped
RECURSIVE DigitsNat(_, _)
DigitsNat(t, i) ==
  IF i = 0 THEN <<>>
  ELSE IF t[i] = "." THEN DigitsNat(t, i - 1)
  ELSE BAdd(BMulSmall(DigitsNat(t, i - 1), 10), BFromInt(DigitVal(t[i])))

\* number of digits after the point
FracDigits(t) ==
  IF \E i \in 1..Len(t) : t[i] = "."
  THEN Len(t) - (CHOOSE i \in 1..Len(t) : t[i] = ".")
  ELSE 0

\* mutant: the digits read as one integer, the point ignored
float_pointIgnored(t) == FRound(DigitsNat(t, Len(t)), 0)

\* float(t) for t matching \d+(\.\d+)?: the nearest binary64 to the decimal
float(t) == FDivInt(FRound(DigitsNat(t, Len(t)), 0), 10^FracDigits(t))

Raise(msg) == [exc |-> "ValueError", msg |-> msg, val |-> None]

Return(v) == [exc |-> "", msg |-> "", val |-> Some(v)]

PingResult(host, ok, latency_ms) ==
  [host |-> host, ok |-> ok, latency_ms |-> latency_ms]

\* mutant: the checks of ok against latency left out
Validated_unchecked(host, ok, latency) == Return(PingResult(host, ok, latency))

\* the checks of ok against latency, and the result
Validated(host, ok, latency) ==
  IF ok /\ latency = None
  THEN Raise("OK status must include latency_ms")
  ELSE IF ~ok /\ latency # None
  THEN Raise("FAIL status must not include latency_ms")
  ELSE Return(PingResult(host, ok, latency))

FromMatch(m) ==
  IF ~m.matched THEN Raise("Invalid log line")
  ELSE Validated(m.host, m.status = sOK,
                 IF m.lat # None THEN Some(float(m.lat[1])) ELSE None)

parse_result_line(line) == FromMatch(PING_RE_match(strip(line)))

\* sorted(values): ascending insertion sort, equal values kept in order
RECURSIVE Insert(_, _)
Insert(xs, v) ==
  IF xs = <<>> THEN <<v>>
  ELSE IF FLt(v, xs[Len(xs)])
  THEN Append(Insert(SubSeq(xs, 1, Len(xs) - 1), v), xs[Len(xs)])
  ELSE Append(xs, v)

RECURSIVE SortUpTo(_, _)
SortUpTo(vs, n) == IF n = 0 THEN <<>> ELSE Insert(SortUpTo(vs, n - 1), vs[n])

\* mutant: the input taken as already sorted
sorted_asGiven(vs) == vs

sorted(vs) == SortUpTo(vs, Len(vs))

\* k = (len(xs) - 1) * (p / 100.0)
Rank(n, p) == FMul(FFromInt(n - 1), FDivInt(FFromInt(p), 100))

\* mutant: the two weights exchanged
Interpolate_swapped(xs, f, c, k) ==
  FAdd(FMul(xs[f + 1], FSub(k, FFromInt(f))), FMul(xs[c + 1], FSub(FFromInt(c), k)))

\* xs[f] * (c - k) + xs[c] * (k - f); Python indexes from 0
Interpolate(xs, f, c, k) ==
  FAdd(FMul(xs[f + 1], FSub(FFromInt(c), k)), FMul(xs[c + 1], FSub(k, FFromInt(f))))

\* mutant: the endpoints excluded
ValidP_exclusive(p) == 0 < p /\ p < 100

ValidP(p) == 0 <= p /\ p <= 100

\* the value at rank k, between the indices f and c
AtRank(xs, k, f, c) ==
  IF f = c THEN Return(xs[f + 1]) ELSE Return(Interpolate(xs, f, c, k))

Ceiling(xs, k, f) == AtRank(xs, k, f, Min(f + 1, Len(xs) - 1))

Ranked(xs, k) == Ceiling(xs, k, FTrunc(k))

OfSorted(xs, p) ==
  IF Len(xs) = 1 THEN Return(xs[1]) ELSE Ranked(xs, Rank(Len(xs), p))

percentile(values, p) ==
  IF values = <<>> THEN Raise("values must be non-empty")
  ELSE IF ~ValidP(p) THEN Raise("p must be between 0 and 100")
  ELSE OfSorted(sorted(values), p)

IsOk(r) == r.ok /\ r.latency_ms # None

Summary(total, success_rate, avg_latency_ms, p95_latency_ms) ==
  [total |-> total, success_rate |-> success_rate,
   avg_latency_ms |-> avg_latency_ms, p95_latency_ms |-> p95_latency_ms]

\* mutant: floor division
SuccessRate_floorDiv(n_ok, total) == FFromInt(n_ok \div total)

SuccessRate(n_ok, total) == FDivInt(FFromInt(n_ok), total)

Latencies(oks) == [i \in 1..Len(oks) |-> oks[i].latency_ms[1]]

\* the result once percentile has returned or raised
WithP95(total, success_rate, avg_latency, p95) ==
  IF p95.exc # "" THEN p95
  ELSE Return(Summary(total, success_rate, Some(avg_latency), p95.val))

\* mutant: no early return for an empty latency list
OfLatencies_noEmptyCheck(total, success_rate, latencies) ==
  WithP95(total, success_rate, fmean(latencies), percentile(latencies, 95))

OfLatencies(total, success_rate, latencies) ==
  IF latencies = <<>>
  THEN Return(Summary(total, success_rate, None, None))
  ELSE WithP95(total, success_rate, fmean(latencies), percentile(latencies, 95))

OfOks(total, oks) == OfLatencies(total, SuccessRate(Len(oks), total), Latencies(oks))

summarize(results) ==
  IF Len(results) = 0 THEN Return(Summary(0, FZero, None, None))
  ELSE OfOks(Len(results), SelectSeq(results, IsOk))

(***************************************************************************)
(* State.  The functions are pure; the state is what their callers hold:   *)
(* the line handed to parse_result_line and its outcome, the list of       *)
(* PingResult collected for summarize and its outcome, and the arguments   *)
(* and outcome of a direct call of percentile.  An outcome is None until   *)
(* the call has been made, then Some of a Return or a Raise.               *)
(***************************************************************************)
VARIABLES logLine, parsed, records, summary, sample, pct, pctResult

vars == <<logLine, parsed, records, summary, sample, pct, pctResult>>

MaxRecords == 3

MaxLen == 3

MaxRun == 26

\* all sequences over S of length 0..n
RECURSIVE SeqsUpTo(_, _)
SeqsUpTo(S, n) ==
  IF n = 0 THEN {<<>>}
  ELSE LET prev == SeqsUpTo(S, n - 1)
       IN  prev \cup {Append(q, x) : q \in prev, x \in S}

RECURSIVE Repeat(_, _)
Repeat(x, n) == IF n = 0 THEN <<>> ELSE <<x>> \o Repeat(x, n - 1)

(***************************************************************************)
(* Input lines: every combination of a prefix, a host, a separator, a      *)
(* status, an optional separator and latency field, and a suffix, the      *)
(* well-formed and the malformed ones, and two lines of no such shape.     *)
(***************************************************************************)
Prefixes == {<<>>, <<" ">>, <<"x">>}

GoodHosts == {<<"a">>, <<"1",".","1">>, <<"g","-","h",".","Z","9">>}

BadHosts == {<<>>, <<"a","_","b">>}

Separators == {<<" ">>, <<" "," ">>, <<"\t">>, <<>>}

Statuses == {sOK, sFAIL, <<"o","k">>}

\* numerals \d+(\.\d+)? with the number they denote, n / 10^j
GoodLats ==
  { [text |-> <<"1","2">>, n |-> 12, j |-> 0],
    [text |-> <<"1","2",".","3">>, n |-> 123, j |-> 1],
    [text |-> <<"0",".","2","5">>, n |-> 25, j |-> 2],
    [text |-> <<"1","0",".","4">>, n |-> 104, j |-> 1] }

BadLats == {<<"1",".">>, <<".","5">>, <<"-","1">>}

LatTexts == {g.text : g \in GoodLats} \cup BadLats

Suffixes == {<<>>, <<"\n">>, <<" ","x">>, <<"x">>}

LatFields == {<<>>} \cup {w \o kwLat \o t : w \in Separators, t \in LatTexts}

Lines ==
  { pre \o kwHost \o h \o w \o kwStatus \o st \o lf \o post :
      pre \in Prefixes, h \in GoodHosts \cup BadHosts, w \in Separators,
      st \in Statuses, lf \in LatFields, post \in Suffixes }
  \cup { <<>>, <<"r","a","n","d","o","m"," ","n","o","n","s","e","n","s","e">> }

\* the line of the documented format for a host, a status and an optional numeral
FormatLine(h, st, lat) ==
  kwHost \o h \o <<" ">> \o kwStatus \o st
    \o (IF lat = None THEN <<>> ELSE <<" ">> \o kwLat \o lat[1])

Idle ==
  /\ logLine = <<>> /\ parsed = None
  /\ records = <<>> /\ summary = None
  /\ sample = <<>> /\ pct = 0 /\ pctResult = None

(***************************************************************************)
(* One call of parse_result_line on any input line.                        *)
(***************************************************************************)
InitParse ==
  /\ logLine \in Lines /\ parsed = None
  /\ records = <<>> /\ summary = None
  /\ sample = <<>> /\ pct = 0 /\ pctResult = None

ParseLine ==
  /\ parsed = None
  /\ parsed' = Some(parse_result_line(logLine))
  /\ UNCHANGED <<logLine, records, summary, sample, pct, pctResult>>

NextParse == ParseLine

SpecParse == InitParse /\ [][NextParse]_vars

(***************************************************************************)
(* One call of percentile on a sample and a p.                             *)
(***************************************************************************)
V0 == FZero

V1 == FFromInt(1)

V10_4 == float(<<"1","0",".","4">>)

V30 == FFromInt(30)

SampleValues == {V0, V1, V10_4, V30}

\* every short sample, and the unsorted two-valued samples of every length
Samples ==
  SeqsUpTo(SampleValues, MaxLen)
  \cup UNION { { Repeat(V30, n - j) \o Repeat(V10_4, j) : j \in 0..n } : n \in 1..MaxRun }

PInputs == {-1, 0, 25, 28, 50, 95, 100, 101}

InitPercentile ==
  /\ sample \in Samples /\ pct \in PInputs /\ pctResult = None
  /\ logLine = <<>> /\ parsed = None
  /\ records = <<>> /\ summary = None

Percentile ==
  /\ pctResult = None
  /\ pctResult' = Some(percentile(sample, pct))
  /\ UNCHANGED <<logLine, parsed, records, summary, sample, pct>>

NextPercentile == Percentile

SpecPercentile == InitPercentile /\ [][NextPercentile]_vars

(***************************************************************************)
(* The batch flow: the caller parses lines and collects the records, or    *)
(* builds PingResult values itself (as the tests do), then calls           *)
(* summarize once over the collection.                                     *)
(***************************************************************************)
FeedLines ==
  { FormatLine(<<"a">>, sOK, Some(<<"1","0",".","4">>)),
    FormatLine(<<"b">>, sFAIL, None),
    FormatLine(<<"c">>, sOK, Some(<<"3","0">>)),
    FormatLine(<<"d">>, sOK, None) }

\* PingResult values a caller constructs without the parser
DirectResults ==
  { PingResult(<<"e">>, TRUE, None),
    PingResult(<<"f">>, FALSE, Some(FFromInt(5))),
    PingResult(<<"g">>, TRUE, Some(FFromInt(10))) }

Init == Idle

\* a line that fails to parse yields no record
Collect(l) ==
  /\ summary = None
  /\ Len(records) < MaxRecords
  /\ records' = records \o parse_result_line(l).val
  /\ UNCHANGED <<logLine, parsed, summary, sample, pct, pctResult>>

Construct(r) ==
  /\ summary = None
  /\ Len(records) < MaxRecords
  /\ records' = Append(records, r)
  /\ UNCHANGED <<logLine, parsed, summary, sample, pct, pctResult>>

Summarize ==
  /\ summary = None
  /\ summary' = Some(summarize(records))
  /\ UNCHANGED <<logLine, parsed, records, sample, pct, pctResult>>

Next ==
  \/ \E l \in FeedLines : Collect(l)
  \/ \E r \in DirectResults : Construct(r)
  \/ Summarize

Spec == Init /\ [][Next]_vars

(***************************************************************************)
(* Definitions used to state the properties, independent of the operators  *)
(* above: nearness of a float to a fraction, trimming, the grammar as a    *)
(* predicate, order statistics by counting.                                *)
(***************************************************************************)
BDist(a, b) == IF BCmp(a, b) >= 0 THEN BSub(a, b) ELSE BSub(b, a)

\* |v - num/den| <= 2^-Mant * num/den: v is num/den up to one rounding
IsNearest(v, num, den) ==
  LET sh == IF v.e < 0 THEN 0 - v.e ELSE 0
      a  == BShl(BMulSmall(v.m, den), v.e + sh)
      n  == BShl(BFromInt(num), sh)
  IN  BCmp(BShl(BDist(a, n), Mant), n) <= 0

Trimmed(l) ==
  LET keep == {i \in 1..Len(l) : l[i] \notin Space}
  IN  IF keep = {} THEN <<>>
      ELSE SubSeq(l, CHOOSE i \in keep : \A k \in keep : i <= k,
                     CHOOSE i \in keep : \A k \in keep : i >= k)

IsNumeral(t) ==
  /\ t # <<>>
  /\ \A i \in 1..Len(t) : t[i] \in Digits \cup {"."}
  /\ Cardinality({i \in 1..Len(t) : t[i] = "."}) <= 1
  /\ t[1] # "." /\ t[Len(t)] # "."

\* the separators the grammar allows: one space only, or any run of whitespace
Seps(oneSpace, n) ==
  IF oneSpace THEN {<<" ">>} ELSE SeqsUpTo(Space, n) \ {<<>>}

\* s is host=<host> status=<status>[ latency_ms=<number>] for the fields of record r
InGrammar(s, r, oneSpace) ==
  /\ r.host # <<>>
  /\ \A i \in 1..Len(r.host) : r.host[i] \in HostChars
  /\ \E w1 \in Seps(oneSpace, 2) :
       LET head == kwHost \o r.host \o w1 \o kwStatus \o (IF r.ok THEN sOK ELSE sFAIL)
       IN  IF r.latency_ms = None THEN s = head
           ELSE \E w2 \in Seps(oneSpace, 2) :
                  LET pre == head \o w2 \o kwLat
                  IN  /\ Len(s) > Len(pre)
                      /\ SubSeq(s, 1, Len(pre)) = pre
                      /\ IsNumeral(SubSeq(s, Len(pre) + 1, Len(s)))

\* the value at index k (from 0) of vs in ascending order
OrderStat(vs, k) ==
  CHOOSE v \in {vs[i] : i \in 1..Len(vs)} :
    /\ Cardinality({i \in 1..Len(vs) : FLt(vs[i], v)}) <= k
    /\ k < Cardinality({i \in 1..Len(vs) : FLe(vs[i], v)})

\* floor(k) for 0 <= k < n
FloorOf(k, n) == CHOOSE f \in 0..n : FLe(FFromInt(f), k) /\ FLt(k, FFromInt(f + 1))

Accepted == parsed # None /\ parsed[1].exc = ""

WhiteEdges == {<<>>, <<" ">>, <<"\n">>}

OneOrMoreSpace == Separators \ {<<>>}

\* lines of the grammar with status OK and no latency group
OkWithoutLatency ==
  { pre \o kwHost \o h \o w \o kwStatus \o sOK \o post :
      pre \in WhiteEdges, h \in GoodHosts, w \in OneOrMoreSpace, post \in WhiteEdges }

\* lines of the grammar with status FAIL and a latency group
FailWithLatency ==
  { pre \o kwHost \o h \o w \o kwStatus \o sFAIL \o w2 \o kwLat \o g.text \o post :
      pre \in WhiteEdges, h \in GoodHosts, w \in OneOrMoreSpace,
      w2 \in OneOrMoreSpace, g \in GoodLats, post \in WhiteEdges }

\* C1: parse_result_line either raises and yields no record, or returns a
\* record with ok true exactly when latency_ms is present; a line of the
\* grammar with OK and no latency, or with FAIL and a latency, raises.
C1_RaisesOrConsistent ==
  parsed # None =>
    /\ \/ parsed[1].exc = "ValueError" /\ parsed[1].val = None
       \/ /\ parsed[1].exc = ""
          /\ parsed[1].val # None
          /\ parsed[1].val[1].ok <=> parsed[1].val[1].latency_ms # None
    /\ logLine \in OkWithoutLatency \cup FailWithLatency => parsed[1].exc = "ValueError"

C1_Witness ==
  /\ parsed # None
  /\ logLine = FormatLine(<<"a">>, sFAIL, Some(<<"1","2",".","3">>))
  /\ parsed[1].msg = "FAIL status must not include latency_ms"

\* C2: the line built from a host of the class, a status and a numeral given
\* exactly when the status is OK parses to the record of that host, that
\* status and that number (the binary64 nearest to it), or no latency.
C2_RoundTrip ==
  parsed # None =>
    /\ \A h \in GoodHosts, g \in GoodLats :
         logLine = FormatLine(h, sOK, Some(g.text)) =>
           /\ parsed[1].exc = ""
           /\ parsed[1].val[1].host = h
           /\ parsed[1].val[1].ok = TRUE
           /\ parsed[1].val[1].latency_ms # None
           /\ IsNearest(parsed[1].val[1].latency_ms[1], g.n, 10^g.j)
    /\ \A h \in GoodHosts :
         logLine = FormatLine(h, sFAIL, None) =>
           /\ parsed[1].exc = ""
           /\ parsed[1].val[1] = PingResult(h, FALSE, None)

C2_Witness ==
  /\ Accepted
  /\ logLine = FormatLine(<<"1",".","1">>, sOK, Some(<<"1","2",".","3">>))
  /\ parsed[1].val[1].latency_ms # None

\* C3 as claimed: an accepted line is, once trimmed, exactly the grammar with
\* its fields separated by exactly one space.
C3_ExactlyOneSpace ==
  Accepted => InGrammar(Trimmed(logLine), parsed[1].val[1], TRUE)

\* C3 amended: an accepted line is, once trimmed, exactly the grammar with its
\* fields separated by one or more whitespace characters; nothing precedes
\* host= and nothing follows the last field.
C3_WhitespaceSeparated ==
  Accepted => InGrammar(Trimmed(logLine), parsed[1].val[1], FALSE)

C3_Witness ==
  /\ Accepted
  /\ logLine = kwHost \o <<"a">> \o <<"\t">> \o kwStatus \o sOK
                 \o <<" ", " ">> \o kwLat \o <<"1","2">>

Summarized == summary # None /\ summary[1].exc = ""

WithLatency == {i \in 1..Len(records) : records[i].ok /\ records[i].latency_ms # None}

\* C4 as claimed: success_rate is the number of records with ok true over total.
C4_RateCountsOk ==
  summary # None /\ records # <<>> =>
    /\ summary[1].exc = ""
    /\ summary[1].val[1].total = Len(records)
    /\ IsNearest(summary[1].val[1].success_rate,
                 Cardinality({i \in 1..Len(records) : records[i].ok}), Len(records))

\* C4 amended: total is the number of records, and success_rate is the number
\* of records with ok true and a latency present over total, within [0, 1].
C4_RateCountsOkWithLatency ==
  summary # None /\ records # <<>> =>
    /\ summary[1].exc = ""
    /\ summary[1].val[1].total = Len(records)
    /\ IsNearest(summary[1].val[1].success_rate, Cardinality(WithLatency), Len(records))
    /\ FLe(FZero, summary[1].val[1].success_rate)
    /\ FLe(summary[1].val[1].success_rate, FFromInt(1))

C4_Witness ==
  /\ Summarized
  /\ \E i \in 1..Len(records) : records[i].ok /\ records[i].latency_ms = None
  /\ WithLatency # {}

\* C5: summarize returns a Summary with its four fields and never raises;
\* with no record that is ok with a latency both latency fields are absent.
C5_NeverRaises ==
  summary # None =>
    /\ summary[1].exc = ""
    /\ summary[1].val # None
    /\ DOMAIN summary[1].val[1] =
         {"total", "success_rate", "avg_latency_ms", "p95_latency_ms"}
    /\ WithLatency = {} =>
         /\ summary[1].val[1].avg_latency_ms = None
         /\ summary[1].val[1].p95_latency_ms = None

C5_Witness ==
  /\ Summarized
  /\ records # <<>>
  /\ WithLatency = {}
  /\ summary[1].val[1].p95_latency_ms = None

\* C6: summarize of any permutation of the records is the same Summary.
C6_OrderInsensitive ==
  summary # None =>
    \A f \in Permutations(1..Len(records)) :
      summarize([i \in 1..Len(records) |-> records[f[i]]]) = summary[1]

C6_Witness ==
  /\ Summarized
  /\ \E i, j \in WithLatency :
       i < j /\ FLt(records[j].latency_ms[1], records[i].latency_ms[1])
  /\ summary[1].val[1].p95_latency_ms # None

Called == pctResult # None

ValidCall == pctResult # None /\ sample # <<>> /\ pct \in 0..100

\* C7: percentile raises ValueError exactly when values is empty or p is
\* outside [0, 100], and returns a value otherwise.
C7_RaisesExactlyWhenInvalid ==
  Called =>
    /\ pctResult[1].exc = "ValueError" <=> (sample = <<>> \/ pct < 0 \/ pct > 100)
    /\ pctResult[1].exc = "" <=> pctResult[1].val # None

C7_Witness ==
  /\ Called /\ sample # <<>> /\ pct = 100
  /\ pctResult[1].exc = ""

\* C8: whenever the rank (n - 1) * p / 100 is an integer, percentile returns
\* the value of that rank in ascending order exactly.
C8_ExactAtIntegerRank ==
  ValidCall /\ ((Len(sample) - 1) * pct) % 100 = 0 =>
    pctResult[1].val = Some(OrderStat(sample, ((Len(sample) - 1) * pct) \div 100))

\* C9: percentile returns the result of the rank interpolation: xs[0] if
\* n = 1, else with k = (n - 1) * (p / 100), f = floor(k), c = min(f + 1, n - 1),
\* xs[f] if f = c and xs[f] * (c - k) + xs[c] * (k - f) otherwise; int(k) is
\* floor(k), and f and c lie in 0..n-1.
C9_RankInterpolation ==
  ValidCall =>
    LET n == Len(sample)
        k == FMul(FFromInt(n - 1), FDivInt(FFromInt(pct), 100))
        f == FloorOf(k, n)
        c == IF f + 1 <= n - 1 THEN f + 1 ELSE n - 1
    IN  /\ f \in 0..(n - 1) /\ c \in 0..(n - 1)
        /\ FTrunc(k) = f
        /\ pctResult[1].val =
             Some(IF n = 1 THEN OrderStat(sample, 0)
                  ELSE IF f = c THEN OrderStat(sample, f)
                  ELSE FAdd(FMul(OrderStat(sample, f), FSub(FFromInt(c), k)),
                            FMul(OrderStat(sample, c), FSub(k, FFromInt(f)))))

C9_Witness ==
  /\ ValidCall /\ pct = 95 /\ sample = <<V30, V1, V10_4>>
  /\ pctResult[1].exc = ""

\* C10: the value percentile returns lies between the values at the two
\* neighbouring ranks f and c, hence between the least and the greatest value.
C10_WithinNeighbours ==
  ValidCall =>
    LET n == Len(sample)
        f == FTrunc(Rank(n, pct))
        c == Min(f + 1, n - 1)
        r == pctResult[1].val[1]
    IN  /\ FLe(OrderStat(sample, f), r) /\ FLe(r, OrderStat(sample, c))
        /\ FLe(OrderStat(sample, 0), r) /\ FLe(r, OrderStat(sample, n - 1))

====
